---- MODULE Spec2Model ----
(***************************************************************************)
(* GenAI Quiz (src/main.py): a topic-entry screen, a generator that sends  *)
(* the same prompt num_questions times and parses each reply, a quiz       *)
(* screen and a result screen.                                             *)
(*                                                                         *)
(* Strings are sequences of one-character strings, so that strip, split,   *)
(* startswith, replace and int are computed the way Python computes them.  *)
(***************************************************************************)
EXTENDS Integers, Sequences, FiniteSets, TLC

\* ------------------------------------------------------------------------
\* Bounds of the model
\* ------------------------------------------------------------------------

\* Questions requested from generate_quiz (main asks for 5; generate_quiz is
\* parametric in the count).
NumQuestions == 3

\* Events that may be waiting (queued or in the batch being iterated) at once.
MaxEvents == 2

\* Longest text the user types into the topic box.
MaxText == 2

\* ------------------------------------------------------------------------
\* Python string operations
\* ------------------------------------------------------------------------

NL == "\n"

Whitespace == {" ", NL, "\t"}

Digits == <<"0", "1", "2", "3", "4", "5", "6", "7", "8", "9">>

IsDigit(c) == \E d \in 1..10 : Digits[d] = c

DigitValue(c) == (CHOOSE d \in 1..10 : Digits[d] = c) - 1

\* str(i) for a one-digit i
DigitChar(i) == Digits[i + 1]

\* s[n:] (0-based n)
Drop(s, n) == SubSeq(s, n + 1, Len(s))

\* s.startswith(p)
StartsWith(s, p) == Len(s) >= Len(p) /\ SubSeq(s, 1, Len(p)) = p

\* s.lstrip() / s.rstrip() / s.strip()
RECURSIVE LStrip(_)
LStrip(s) == IF s # <<>> /\ Head(s) \in Whitespace THEN LStrip(Tail(s)) ELSE s

RECURSIVE RStrip(_)
RStrip(s) ==
    IF s # <<>> /\ s[Len(s)] \in Whitespace
    THEN RStrip(SubSeq(s, 1, Len(s) - 1))
    ELSE s

StripLeftOnly(s) == LStrip(s)

Strip(s) == RStrip(LStrip(s))

\* s.split(sep) for a one-character sep: k separators give k+1 pieces
RECURSIVE Split(_, _)
Split(s, sep) ==
    IF \E k \in 1..Len(s) : s[k] = sep
    THEN LET k == CHOOSE k \in 1..Len(s) : s[k] = sep /\ \A j \in 1..(k - 1) : s[j] # sep
         IN  <<SubSeq(s, 1, k - 1)>> \o Split(Drop(s, k), sep)
    ELSE <<s>>

\* s.replace(old, ""): every non-overlapping occurrence, left to right
RECURSIVE RemoveAll(_, _)
RemoveAll(s, old) ==
    IF s = <<>> THEN <<>>
    ELSE IF StartsWith(s, old) THEN RemoveAll(Drop(s, Len(old)), old)
    ELSE <<Head(s)>> \o RemoveAll(Tail(s), old)

\* s.split('.', 1)[1]: the text after the first '.' (callers guarantee one)
AfterFirstDot(s) ==
    LET k == CHOOSE k \in 1..Len(s) : s[k] = "." /\ \A j \in 1..(k - 1) : s[j] # "."
    IN  Drop(s, k)

RECURSIVE DecimalValue(_)
DecimalValue(ds) ==
    IF ds = <<>> THEN 0
    ELSE 10 * DecimalValue(SubSeq(ds, 1, Len(ds) - 1)) + DigitValue(ds[Len(ds)])

\* int(s): surrounding whitespace dropped, an optional sign, then digits only.
\* [err |-> TRUE] stands for the ValueError int raises on anything else.
PyInt(s) ==
    LET t      == Strip(s)
        signed == t # <<>> /\ Head(t) \in {"+", "-"}
        ds     == IF signed THEN Tail(t) ELSE t
    IN  IF ds # <<>> /\ \A k \in 1..Len(ds) : IsDigit(ds[k])
        THEN [err |-> FALSE,
              val |-> IF signed /\ Head(t) = "-" THEN 0 - DecimalValue(ds) ELSE DecimalValue(ds)]
        ELSE [err |-> TRUE, val |-> 0]

\* ------------------------------------------------------------------------
\* parse_generated_text
\* ------------------------------------------------------------------------

QuestionPrefix == <<"Q", "u", "e", "s", "t", "i", "o", "n", ":">>

AnswerPrefix == <<"A", "n", "s", "w", "e", "r", ":">>

\* The failure value (None, None, None).  None is written as the empty value
\* of each component's type, which is falsy exactly as None is.
ParseFailure == [none |-> TRUE, question |-> <<>>, options |-> <<>>, answer |-> 0]

ParseSuccess(question, options, answer) ==
    [none |-> FALSE, question |-> question, options |-> options, answer |-> answer]

\* Python's lines[i]
Line(lines, i) == lines[i + 1]

\* len(lines) < 6
TooFewLines(lines) == Len(lines) < 6

\* question_line.replace("Question:", "").strip()
QuestionBody(question_line) == Strip(RemoveAll(question_line, QuestionPrefix))

\* range(1, 5)
OptionRangeShort == 1..3

OptionRange == 1..4

\* option_line.startswith(f"{i}.")
OptionLineOk(lines, i) == StartsWith(Line(lines, i), <<DigitChar(i), ".">>)

\* option_line.split('.', 1)[1].strip()
OptionText(option_line) == Strip(AfterFirstDot(option_line))

\* the list built by the loop over the option lines
ParseOptions(lines) == [i \in OptionRange |-> OptionText(Line(lines, i))]

\* answer_line.replace("Answer:", "").strip()
AnswerStr(answer_line) == Strip(RemoveAll(answer_line, AnswerPrefix))

\* answer < 1 or answer > 4
AnswerOutOfRange(answer) == answer < 1 \/ answer > 4

\* The body of the try block; [raised |-> TRUE] is an exception leaving it.
ParseTry(lines) ==
    IF ~StartsWith(Line(lines, 0), QuestionPrefix)
    THEN [raised |-> FALSE, result |-> ParseFailure]
    ELSE IF \E i \in OptionRange : ~OptionLineOk(lines, i)
    THEN [raised |-> FALSE, result |-> ParseFailure]
    ELSE IF ~StartsWith(Line(lines, 5), AnswerPrefix)
    THEN [raised |-> FALSE, result |-> ParseFailure]
    ELSE LET answer == PyInt(AnswerStr(Line(lines, 5)))
         IN  IF answer.err
             THEN [raised |-> TRUE, result |-> ParseFailure]
             ELSE IF AnswerOutOfRange(answer.val)
             THEN [raised |-> FALSE, result |-> ParseFailure]
             ELSE [raised |-> FALSE,
                   result |-> ParseSuccess(QuestionBody(Line(lines, 0)),
                                           ParseOptions(lines), answer.val)]

\* A call that returned this value / a call an exception escaped from.
Returned(value) == [raised |-> FALSE, result |-> value]

\* except Exception: return None, None, None
ParseExcept(attempt) == IF attempt.raised THEN Returned(ParseFailure) ELSE attempt

\* parse_generated_text(text): what the call returns, or that it raised
ParseGeneratedText(text) ==
    LET lines == Split(text, NL)
    IN  IF TooFewLines(lines) THEN Returned(ParseFailure) ELSE ParseExcept(ParseTry(lines))

\* ------------------------------------------------------------------------
\* Reply texts the generative service may return
\* ------------------------------------------------------------------------

RECURSIVE Join(_)
Join(lines) ==
    IF lines = <<>> THEN <<>>
    ELSE IF Len(lines) = 1 THEN lines[1]
    ELSE lines[1] \o <<NL>> \o Join(Tail(lines))

\* First lines: the template's, an empty body, the prefix twice, the prefix
\* again inside the body, no prefix, and leading blanks before the prefix.
Line0Plain == QuestionPrefix \o <<" ", "q">>

Line0s ==
    { Line0Plain,
      QuestionPrefix,
      QuestionPrefix \o <<" ">> \o QuestionPrefix,
      QuestionPrefix \o <<" ", "q">> \o QuestionPrefix \o <<"r">>,
      <<"q", "?">>,
      <<" ">> \o Line0Plain }

\* Option lines: the template's (one without a blank after the dot, one with
\* a dot inside the option), an empty first option, a blank fourth line, the
\* first two swapped, and a first line without its dot.
OptionsPlain == << <<"1", ".", " ", "a">>, <<"2", ".", " ", "b">>,
                   <<"3", ".", "c">>, <<"4", ".", " ", "d", ".", "e">> >>

OptionLines ==
    { OptionsPlain,
      [OptionsPlain EXCEPT ![1] = <<"1", ".">>],
      [OptionsPlain EXCEPT ![4] = <<>>],
      [OptionsPlain EXCEPT ![1] = OptionsPlain[2], ![2] = OptionsPlain[1]],
      [OptionsPlain EXCEPT ![1] = <<"1", " ", "a">>] }

\* Answer lines.
Line5Plain == AnswerPrefix \o <<" ", "2">>

Line5s ==
    { Line5Plain,
      AnswerPrefix \o <<" ", "1">>,
      AnswerPrefix \o <<"4">>,
      AnswerPrefix \o <<" ", "+", "3">>,
      AnswerPrefix \o <<" ", "0", "2", " ">>,
      AnswerPrefix \o <<" ", "7">>,
      AnswerPrefix \o <<" ", "0">>,
      AnswerPrefix \o <<" ", "-", "1">>,
      AnswerPrefix \o <<" ", "1", "2">>,
      AnswerPrefix \o <<" ", "b">>,
      AnswerPrefix \o <<" ", "1", " ", "2">>,
      AnswerPrefix,
      AnswerPrefix \o <<" ", "2">> \o AnswerPrefix,
      <<"2">> }

Shapes == { "exact", "trailing_newline", "extra_line", "blank_then_extra",
            "blank_after_question", "no_answer_line", "leading_newline" }

Text(l0, opts, l5, shape) ==
    CASE shape = "exact"                -> Join(<<l0>> \o opts \o <<l5>>)
      [] shape = "trailing_newline"     -> Join(<<l0>> \o opts \o <<l5>>) \o <<NL>>
      [] shape = "extra_line"           -> Join(<<l0>> \o opts \o <<l5, <<"x">>>>)
      [] shape = "blank_then_extra"     -> Join(<<l0>> \o opts \o <<l5, <<>>, <<"x">>>>)
      [] shape = "blank_after_question" -> Join(<<l0, <<>>>> \o opts \o <<l5>>)
      [] shape = "no_answer_line"       -> Join(<<l0>> \o opts)
      [] shape = "leading_newline"      -> <<NL>> \o Join(<<l0>> \o opts \o <<l5>>)

\* Every combination: the inputs parse_generated_text is applied to.
ParserInputs ==
    { Text(l0, opts, l5, shape) :
        l0 \in Line0s, opts \in OptionLines, l5 \in Line5s, shape \in Shapes }
    \cup { <<>>, <<"x">> }

\* The template text with at most one part varied: the replies of a session.
SessionLine5s ==
    { AnswerPrefix \o <<" ", "1">>,
      AnswerPrefix \o <<"4">>,
      AnswerPrefix \o <<" ", "7">>,
      AnswerPrefix \o <<" ", "b">>,
      AnswerPrefix \o <<" ", "2">> \o AnswerPrefix }

SessionShapes == { "trailing_newline", "extra_line", "no_answer_line" }

ReplyTexts ==
    { Text(l0, OptionsPlain, Line5Plain, "exact") : l0 \in Line0s }
    \cup { Text(Line0Plain, opts, Line5Plain, "exact") : opts \in OptionLines }
    \cup { Text(Line0Plain, OptionsPlain, l5, "exact") : l5 \in SessionLine5s }
    \cup { Text(Line0Plain, OptionsPlain, Line5Plain, shape) : shape \in SessionShapes }
    \cup { <<>> }

\* send_message returns a reply with this text, or raises.
TextReply(t) == [raises |-> FALSE, text |-> t]

ErrorReply == [raises |-> TRUE, text |-> <<>>]

Replies == { TextReply(t) : t \in ReplyTexts } \cup { ErrorReply }

\* The replies of the sessions that go on to the quiz screens: two texts that
\* parse (answers 2 and 1), one with an empty question body, one without the
\* Question: prefix, and a failed request.
UiReplies ==
    { TextReply(Text(Line0Plain, OptionsPlain, Line5Plain, "exact")),
      TextReply(Text(Line0Plain, OptionsPlain, AnswerPrefix \o <<" ", "1">>, "exact")),
      TextReply(Text(QuestionPrefix, OptionsPlain, Line5Plain, "exact")),
      TextReply(Text(<<"q", "?">>, OptionsPlain, Line5Plain, "exact")),
      ErrorReply }

\* ------------------------------------------------------------------------
\* Display constants and input events
\* ------------------------------------------------------------------------

WIDTH == 800

HEIGHT == 600

\* pygame.Rect(x, y, w, h)
Rect(x, y, w, h) == [x |-> x, y |-> y, w |-> w, h |-> h]

\* rect.collidepoint(pos): the right and bottom edges are outside
CollidePoint(rect, pos) ==
    /\ rect.x <= pos[1] /\ pos[1] < rect.x + rect.w
    /\ rect.y <= pos[2] /\ pos[2] < rect.y + rect.h

\* main_menu's input_box.  Its width is max(200, text width + 10); the typed
\* text stays far shorter than 190 pixels here, so the width stays 200.
InputBox == Rect((WIDTH \div 2) - 100, (HEIGHT \div 2) - 20, 200, 40)

\* run_quiz's option_rect for option idx (0-based)
OptionRect(idx) == Rect(100, 200 + idx * 60, 600, 50)

QuitEvent == [type |-> "QUIT", pos |-> <<0, 0>>, key |-> "", unicode |-> ""]

MouseDown(pos) == [type |-> "MOUSEBUTTONDOWN", pos |-> pos, key |-> "", unicode |-> ""]

KeyDown(key, unicode) == [type |-> "KEYDOWN", pos |-> <<0, 0>>, key |-> key, unicode |-> unicode]

\* Click positions: inside the input box (which is also inside the second
\* option rectangle), inside the first option rectangle, and in no rectangle.
ClickPositions == { <<350, 290>>, <<150, 210>>, <<10, 10>> }

CharKeys == { KeyDown("K_a", "a"), KeyDown("K_SPACE", " ") }

Events ==
    { QuitEvent } \cup { MouseDown(pos) : pos \in ClickPositions }
    \cup { KeyDown("K_RETURN", "\r"), KeyDown("K_BACKSPACE", "\\b") } \cup CharKeys

\* ------------------------------------------------------------------------
\* State
\* ------------------------------------------------------------------------

VARIABLES
    screen,           \* TopicEntry, Generating, QuizPlay, Result or Exit
    pc,               \* position inside the current function
    display,          \* TRUE from pygame.init() until pygame.quit()
    exit_code,        \* the process exit status; -1 while it runs
    queue,            \* pygame's event queue
    batch,            \* what is left of the list pygame.event.get() returned
    active,           \* main_menu: active
    text,             \* main_menu: text
    topic,            \* generate_quiz: topic
    i,                \* generate_quiz: i, the iterations done
    questions,        \* generate_quiz: questions; then run_quiz's argument
    response,         \* generate_quiz: the last reply of send_message
    generated_text,   \* generate_quiz: generated_text
    parsed,           \* generate_quiz: question, options, answer
    log,              \* the last line generate_quiz or main printed
    parsed_count,     \* replies so far for which parse_generated_text succeeded
    current_question, \* run_quiz: current_question
    score,            \* run_quiz: score
    question_data     \* run_quiz: question_data, loaded at the top of the loop

vars == << screen, pc, display, exit_code, queue, batch, active, text, topic, i,
           questions, response, generated_text, parsed, log, parsed_count,
           current_question, score, question_data >>

uiVars == << queue, batch, active, text >>

genVars == << topic, i, questions, response, generated_text, parsed, log, parsed_count >>

quizVars == << current_question, score, question_data >>

NoQuestion == [question |-> <<>>, options |-> <<>>, answer |-> <<>>]

NoReply == [raises |-> FALSE, text |-> <<>>]

\* The values of generate_quiz's locals outside generate_quiz.
GenIdle ==
    /\ topic = <<>> /\ i = 0 /\ response = NoReply /\ generated_text = <<>>
    /\ parsed = ParseFailure /\ log = "" /\ parsed_count = 0

QuizIdle == current_question = 0 /\ score = 0 /\ question_data = NoQuestion

\* The module's start: with no GEMINI_API_KEY the process exits with status 1
\* before pygame is initialised; otherwise main() enters main_menu.
Init ==
    /\ queue = <<>> /\ batch = <<>> /\ active = FALSE /\ text = <<>>
    /\ questions = <<>> /\ GenIdle /\ QuizIdle
    /\ \/ screen = "TopicEntry" /\ pc = "poll" /\ display = TRUE /\ exit_code = -1
       \/ screen = "Exit" /\ pc = "done" /\ display = FALSE /\ exit_code = 1

\* ------------------------------------------------------------------------
\* generate_quiz
\* ------------------------------------------------------------------------

\* if question and options and answer
AcceptsParsedAnyBody(p) == p.options # <<>> /\ p.answer # 0

AcceptsParsed(p) == p.question # <<>> /\ p.options # <<>> /\ p.answer # 0

\* the dict appended to questions; options[answer - 1] is the answer-th option
NewQuestionRawDigit(p) ==
    [question |-> p.question, options |-> p.options, answer |-> <<DigitChar(p.answer)>>]

NewQuestion(p) ==
    [question |-> p.question, options |-> p.options, answer |-> p.options[p.answer]]

\* One iteration of the for loop: the request, and on a reply strip, parse
\* and append or report.  An exception raised inside the try block (by the
\* request, or one escaping the parser) is caught and reported.
GenerateIteration(reply) ==
    /\ screen = "Generating" /\ pc = "request"
    /\ i < NumQuestions
    /\ i' = i + 1
    /\ response' = reply
    /\ IF reply.raises
       THEN /\ log' = "Error generating question"
            /\ UNCHANGED << generated_text, parsed, questions, parsed_count >>
       ELSE LET call == ParseGeneratedText(Strip(reply.text)) IN
            /\ generated_text' = Strip(reply.text)
            /\ IF call.raised
               THEN /\ log' = "Error generating question"
                    /\ UNCHANGED << parsed, questions, parsed_count >>
               ELSE /\ parsed' = call.result
                    /\ parsed_count' = IF call.result.none THEN parsed_count
                                       ELSE parsed_count + 1
                    /\ IF AcceptsParsed(call.result)
                       THEN /\ questions' = Append(questions, NewQuestion(call.result))
                            /\ log' = "--- End of Generated Question ---"
                       ELSE /\ questions' = questions
                            /\ log' = "Failed to parse generated question"
    /\ UNCHANGED << screen, pc, display, exit_code, topic >>
    /\ UNCHANGED uiVars
    /\ UNCHANGED quizVars

\* ------------------------------------------------------------------------
\* main, after main_menu: generate_quiz's return, then run_quiz or exit
\* ------------------------------------------------------------------------

\* pygame.quit(); sys.exit()
Quit ==
    /\ screen' = "Exit" /\ pc' = "done"
    /\ display' = FALSE /\ exit_code' = 0
    /\ queue' = <<>> /\ batch' = <<>>

\* if questions:
QuizReadyAlways(qs) == TRUE

QuizReadyInverted(qs) == qs = <<>>

QuizReady(qs) == qs # <<>>

\* while current_question < len(questions)
MoreQuestions(cq, qs) == cq < Len(qs)

\* The loop is over: generate_quiz returns and its locals are gone.  main
\* calls run_quiz (whose loop is entered, or left at once for end_quiz) or
\* reports the failure, shuts the display down and exits.
GenerateReturn ==
    /\ screen = "Generating" /\ pc = "request"
    /\ i = NumQuestions
    /\ topic' = <<>> /\ i' = 0 /\ response' = NoReply /\ generated_text' = <<>>
    /\ parsed' = ParseFailure /\ parsed_count' = 0
    /\ UNCHANGED << questions, active, text >>
    /\ IF QuizReady(questions)
       THEN /\ current_question' = 0 /\ score' = 0
            /\ log' = ""
            /\ IF MoreQuestions(0, questions)
               THEN screen' = "QuizPlay" /\ question_data' = questions[1]
               ELSE screen' = "Result" /\ question_data' = NoQuestion
            /\ pc' = "poll"
            /\ UNCHANGED << display, exit_code, queue, batch >>
       ELSE /\ log' = "Failed to generate quiz questions."
            /\ Quit
            /\ UNCHANGED quizVars

\* ------------------------------------------------------------------------
\* The user
\* ------------------------------------------------------------------------

IsCharKey(e) == e \in CharKeys

RECURSIVE CountCharKeys(_)
CountCharKeys(es) ==
    IF es = <<>> THEN 0
    ELSE (IF IsCharKey(Head(es)) THEN 1 ELSE 0) + CountCharKeys(Tail(es))

\* The user closes the window, clicks or presses a key: pygame queues the
\* event until the program polls.
UserEvent(e) ==
    /\ screen # "Exit"
    /\ Len(queue) + Len(batch) < MaxEvents
    /\ IsCharKey(e) => Len(text) + CountCharKeys(queue \o batch) < MaxText
    /\ queue' = Append(queue, e)
    /\ UNCHANGED << screen, pc, display, exit_code, batch, active, text >>
    /\ UNCHANGED genVars
    /\ UNCHANGED quizVars

\* pygame.event.get(): the queued events, which leave the queue
PollEvents ==
    /\ pc = "poll"
    /\ batch' = queue /\ queue' = <<>>
    /\ pc' = "events"

\* ------------------------------------------------------------------------
\* main_menu
\* ------------------------------------------------------------------------

MenuPoll ==
    /\ screen = "TopicEntry"
    /\ PollEvents
    /\ UNCHANGED << screen, display, exit_code, active, text >>
    /\ UNCHANGED genVars
    /\ UNCHANGED quizVars

\* the MOUSEBUTTONDOWN branch
ClickActive(act, inside) == IF inside THEN ~act ELSE FALSE

\* text[:-1]
DropLast(s) == IF s = <<>> THEN <<>> ELSE SubSeq(s, 1, Len(s) - 1)

\* One event of the for loop.
MenuEvent ==
    /\ screen = "TopicEntry" /\ pc = "events" /\ batch # <<>>
    /\ LET event == Head(batch) IN
       IF event.type = "QUIT"
       THEN /\ Quit
            /\ UNCHANGED << active, text >>
            /\ UNCHANGED genVars
       ELSE IF event.type = "MOUSEBUTTONDOWN"
       THEN /\ active' = ClickActive(active, CollidePoint(InputBox, event.pos))
            /\ batch' = Tail(batch)
            /\ UNCHANGED << screen, pc, display, exit_code, queue, text >>
            /\ UNCHANGED genVars
       ELSE IF active /\ event.key = "K_RETURN" /\ Strip(text) # <<>>
       THEN \* return topic: the rest of the polled list is dropped, main
            \* calls generate_quiz(topic, num_questions)
            /\ screen' = "Generating" /\ pc' = "request"
            /\ topic' = Strip(text)
            /\ i' = 0 /\ questions' = <<>>
            /\ batch' = <<>> /\ active' = FALSE /\ text' = <<>>
            /\ UNCHANGED << display, exit_code, queue, response, generated_text,
                            parsed, log, parsed_count >>
       ELSE /\ text' = IF ~active \/ event.key = "K_RETURN" THEN text
                       ELSE IF event.key = "K_BACKSPACE" THEN DropLast(text)
                       ELSE text \o <<event.unicode>>
            /\ batch' = Tail(batch)
            /\ UNCHANGED << screen, pc, display, exit_code, queue, active >>
            /\ UNCHANGED genVars
    /\ UNCHANGED quizVars

\* The frame is drawn and the loop starts over.
MenuRender ==
    /\ screen = "TopicEntry" /\ pc = "events" /\ batch = <<>>
    /\ pc' = "poll"
    /\ UNCHANGED << screen, display, exit_code, queue, batch, active, text >>
    /\ UNCHANGED genVars
    /\ UNCHANGED quizVars

\* ------------------------------------------------------------------------
\* run_quiz
\* ------------------------------------------------------------------------

QuizPoll ==
    /\ screen = "QuizPlay"
    /\ PollEvents
    /\ UNCHANGED << screen, display, exit_code, active, text >>
    /\ UNCHANGED genVars
    /\ UNCHANGED quizVars

\* The option indexes (0-based) whose rectangle holds the click.
OptionsHitNone(options, pos) == {}

OptionsHit(options, pos) ==
    { idx \in 0..(Len(options) - 1) : CollidePoint(OptionRect(idx), pos) }

\* One event of the for loop.  A click is compared with the question loaded
\* at the top of the while loop.
QuizEvent ==
    /\ screen = "QuizPlay" /\ pc = "events" /\ batch # <<>>
    /\ LET event == Head(batch) IN
       IF event.type = "QUIT"
       THEN /\ Quit
            /\ UNCHANGED quizVars
       ELSE /\ IF event.type = "MOUSEBUTTONDOWN"
               THEN LET hit   == OptionsHit(question_data.options, event.pos)
                        right == { idx \in hit :
                                     question_data.options[idx + 1] = question_data.answer }
                    IN  /\ score' = score + Cardinality(right)
                        /\ current_question' = current_question + Cardinality(hit)
               ELSE UNCHANGED << score, current_question >>
            /\ batch' = Tail(batch)
            /\ UNCHANGED << screen, pc, display, exit_code, queue, question_data >>
    /\ UNCHANGED << active, text >>
    /\ UNCHANGED genVars

\* The frame is drawn; then the while condition: the next question is loaded,
\* or the loop ends and end_quiz(score, len(questions)) takes over.
QuizRender ==
    /\ screen = "QuizPlay" /\ pc = "events" /\ batch = <<>>
    /\ pc' = "poll"
    /\ IF MoreQuestions(current_question, questions)
       THEN screen' = "QuizPlay" /\ question_data' = questions[current_question + 1]
       ELSE screen' = "Result" /\ UNCHANGED question_data
    /\ UNCHANGED << display, exit_code, queue, batch, active, text, current_question, score >>
    /\ UNCHANGED genVars

\* ------------------------------------------------------------------------
\* end_quiz
\* ------------------------------------------------------------------------

ResultPoll ==
    /\ screen = "Result"
    /\ PollEvents
    /\ UNCHANGED << screen, display, exit_code, active, text >>
    /\ UNCHANGED genVars
    /\ UNCHANGED quizVars

\* event.type == pygame.QUIT, or event.type in (pygame.KEYDOWN, pygame.MOUSEBUTTONDOWN)
ExitsResultKeyOnly(event) == event.type \in {"QUIT", "KEYDOWN"}

ExitsResult(event) == event.type \in {"QUIT", "KEYDOWN", "MOUSEBUTTONDOWN"}

\* One event of the for loop.
ResultEvent ==
    /\ screen = "Result" /\ pc = "events" /\ batch # <<>>
    /\ IF ExitsResult(Head(batch))
       THEN Quit
       ELSE batch' = Tail(batch) /\ UNCHANGED << screen, pc, display, exit_code, queue >>
    /\ UNCHANGED << active, text >>
    /\ UNCHANGED genVars
    /\ UNCHANGED quizVars

\* The score frame is drawn and the loop starts over.
ResultRender ==
    /\ screen = "Result" /\ pc = "events" /\ batch = <<>>
    /\ pc' = "poll"
    /\ UNCHANGED << screen, display, exit_code, queue, batch, active, text >>
    /\ UNCHANGED genVars
    /\ UNCHANGED quizVars

\* ------------------------------------------------------------------------
\* Specifications
\* ------------------------------------------------------------------------

\* The whole program.
Next ==
    \/ \E e \in Events : UserEvent(e)
    \/ MenuPoll
    \/ MenuEvent
    \/ MenuRender
    \/ \E reply \in UiReplies : GenerateIteration(reply)
    \/ GenerateReturn
    \/ QuizPoll
    \/ QuizEvent
    \/ QuizRender
    \/ ResultPoll
    \/ ResultEvent
    \/ ResultRender

Spec == Init /\ [][Next]_vars

\* generate_quiz alone, called with a topic, over the wider set of replies.
InitGen ==
    /\ screen = "Generating" /\ pc = "request" /\ display = TRUE /\ exit_code = -1
    /\ queue = <<>> /\ batch = <<>> /\ active = FALSE /\ text = <<>>
    /\ questions = <<>> /\ QuizIdle
    /\ topic = <<"a">> /\ i = 0 /\ response = NoReply /\ generated_text = <<>>
    /\ parsed = ParseFailure /\ log = "" /\ parsed_count = 0

NextGen ==
    \/ \E reply \in Replies : GenerateIteration(reply)
    \/ GenerateReturn

SpecGen == InitGen /\ [][NextGen]_vars

\* parse_generated_text alone, applied to each input text.
InitParse ==
    /\ screen = "Generating" /\ pc = "parse" /\ display = TRUE /\ exit_code = -1
    /\ queue = <<>> /\ batch = <<>> /\ active = FALSE /\ text = <<>>
    /\ questions = <<>> /\ QuizIdle
    /\ topic = <<>> /\ i = 0 /\ response = NoReply
    /\ generated_text \in ParserInputs
    /\ parsed = ParseFailure /\ log = "" /\ parsed_count = 0

ParseCall ==
    /\ pc = "parse"
    /\ LET call == ParseGeneratedText(generated_text) IN
       IF call.raised
       THEN pc' = "raised" /\ UNCHANGED parsed
       ELSE pc' = "returned" /\ parsed' = call.result
    /\ UNCHANGED << screen, display, exit_code, queue, batch, active, text, topic, i,
                    questions, response, generated_text, log, parsed_count >>
    /\ UNCHANGED quizVars

NextParse == ParseCall

SpecParse == InitParse /\ [][NextParse]_vars

\* ------------------------------------------------------------------------
\* Properties
\* ------------------------------------------------------------------------

Lines(t) == Split(t, NL)

Last(seq) == seq[Len(seq)]

\* The lines of t that hold something other than blanks.
NonBlankLineCount(t) ==
    Cardinality({ k \in 1..Len(Lines(t)) : Strip(Lines(t)[k]) # <<>> })

\* int of what follows the leading Answer: prefix of an answer line
TemplateAnswer(answer_line) == PyInt(Drop(answer_line, Len(AnswerPrefix)))

\* The first six lines of t follow the template: Question:, 1. to 4., and
\* Answer: followed by an integer in 1..4.
FollowsTemplate(t) ==
    LET ls == Lines(t) IN
    /\ Len(ls) >= 6
    /\ StartsWith(ls[1], QuestionPrefix)
    /\ \A n \in 1..4 : StartsWith(ls[n + 1], <<DigitChar(n), ".">>)
    /\ StartsWith(ls[6], AnswerPrefix)
    /\ ~TemplateAnswer(ls[6]).err
    /\ TemplateAnswer(ls[6]).val \in 1..4

\* The last iteration of generate_quiz received this reply text.
LastReplyWas(t) ==
    screen = "Generating" /\ pc = "request" /\ i > 0 /\ ~response.raises /\ response.text = t

\* The last iteration appended a Question whose options are the trimmed texts
\* after the first dot of lines 1-4 of t and whose answer is the k-th of them.
YieldedQuestion(t) ==
    LET ls == Lines(t)
        k  == TemplateAnswer(ls[6]).val
    IN  /\ log = "--- End of Generated Question ---"
        /\ questions # <<>>
        /\ Last(questions).options = [n \in 1..4 |-> Strip(AfterFirstDot(ls[n + 1]))]
        /\ Last(questions).answer = Last(questions).options[k]

\* C1: every reply text whose first six lines follow the template (Question:,
\* 1. to 4., Answer: and an integer k in 1..4) yields a Question whose options
\* are the four texts after the first dot of lines 1-4 and whose answer is
\* the k-th option, not the digit.
C1_TemplateYieldsQuestion ==
    \A t \in ReplyTexts : (LastReplyWas(t) /\ FollowsTemplate(t)) => YieldedQuestion(t)

\* What does hold of C1's texts: those with a question body yield the Question.
TemplateWithBodyYieldsQuestion ==
    \A t \in ReplyTexts :
        (LastReplyWas(t) /\ FollowsTemplate(t) /\ QuestionBody(Lines(t)[1]) # <<>>)
            => YieldedQuestion(t)

\* C2: a text with fewer than 6 non-empty lines makes parse_generated_text
\* return the failure value (None, None, None), and no exception leaves it.
C2_FewLinesFail ==
    (pc # "parse" /\ NonBlankLineCount(generated_text) < 6)
        => (pc = "returned" /\ parsed = ParseFailure)

\* C2's case: six or more lines of which fewer than six are non-empty, so the
\* line count alone does not reject the text, and the call has returned.
C2_Witness ==
    /\ pc = "returned" /\ parsed = ParseFailure
    /\ Len(Lines(generated_text)) >= 6
    /\ NonBlankLineCount(generated_text) < 6
    /\ StartsWith(Lines(generated_text)[6], AnswerPrefix)

\* C3: when what follows the leading Answer: prefix of line 5, trimmed, is not
\* an integer, or is an integer outside 1..4, parse_generated_text fails.
C3_BadAnswerFails ==
    LET ls == Lines(generated_text) IN
    (/\ pc # "parse"
     /\ Len(ls) >= 6
     /\ StartsWith(ls[6], AnswerPrefix)
     /\ (TemplateAnswer(ls[6]).err \/ TemplateAnswer(ls[6]).val \notin 1..4))
        => (pc = "returned" /\ parsed = ParseFailure)

\* C4: the parser accepts a text only if it consists of exactly the six
\* template lines; a text with additional lines is a parse failure.
C4_ExactlySixLines ==
    (pc = "returned" /\ ~parsed.none) => Len(Lines(generated_text)) = 6

\* C5: generate_quiz returns between 0 and count questions, and exactly count
\* when every one of the count replies is text the parser accepts.
C5_LengthWithinCount ==
    (screen = "Generating" /\ pc = "request" /\ i = NumQuestions)
        => /\ Len(questions) \in 0..NumQuestions
           /\ parsed_count = NumQuestions => Len(questions) = NumQuestions

\* The reply text parses: parse_generated_text returns a question for it.
ParsesOk(reply) ==
    /\ ~reply.raises
    /\ ~ParseGeneratedText(Strip(reply.text)).raised
    /\ ~ParseGeneratedText(Strip(reply.text)).result.none

\* C6: each iteration issues one request and never retries; an iteration whose
\* reply parses appends exactly that reply's Question after the earlier ones,
\* any other iteration leaves the list as it was; so the list holds one
\* Question per successfully parsed reply, in request order.
C6_FailureDropsOnlyItsSlot ==
    /\ [](i <= NumQuestions /\ (screen = "Generating" => Len(questions) = parsed_count))
    /\ [][(screen = "Generating" /\ i' = i + 1)
            => IF ParsesOk(response')
               THEN questions' = Append(questions,
                                        NewQuestion(ParseGeneratedText(Strip(response'.text)).result))
               ELSE questions' = questions]_vars

\* C7: every Question generate_quiz returns, and so every Question run_quiz
\* loads, has exactly 4 options and an answer equal to one of them.
WellFormedQuestion(q) ==
    Len(q.options) = 4 /\ \E n \in 1..4 : q.options[n] = q.answer

C7_AnswerAmongFourOptions ==
    /\ \A k \in 1..Len(questions) : WellFormedQuestion(questions[k])
    /\ screen = "QuizPlay" => WellFormedQuestion(question_data)

\* C7's case: generate_quiz has returned a full list and run_quiz loaded a
\* question whose answer is its fourth option.
C7_Witness ==
    /\ screen = "QuizPlay" /\ Len(questions) = NumQuestions
    /\ question_data.answer = question_data.options[4]

\* The order of the screens.
Rank(s) ==
    CASE s = "TopicEntry" -> 1 [] s = "Generating" -> 2 [] s = "QuizPlay" -> 3
      [] s = "Result" -> 4 [] s = "Exit" -> 5

\* C8: the screen only moves forward along TopicEntry, Generating, QuizPlay,
\* Result, Exit: every change goes to the next screen or jumps to Exit, so no
\* screen is entered again, and Exit is never left.
C8_ScreensMoveForward ==
    [][screen' # screen
         => /\ screen # "Exit"
            /\ (Rank(screen') = Rank(screen) + 1 \/ screen' = "Exit")]_vars

\* C8's case: the Result screen, reached through every screen before it, is
\* about to handle an event.
C8_Witness == screen = "Result" /\ pc = "events" /\ batch # <<>>

HasQuit(es) == \E k \in 1..Len(es) : es[k].type = "QUIT"

\* C9 as stated: once a window-close event has been delivered in TopicEntry,
\* Generating, QuizPlay or Result, the only screen the program moves to is
\* Exit; on Result a key press or click handled does the same.
C9_CloseExitsFromAnyScreen ==
    [][/\ (screen # "Exit" /\ HasQuit(queue \o batch)) => screen' \in {screen, "Exit"}
       /\ (screen = "Result" /\ batch # <<>> /\ batch' # batch) => screen' = "Exit"]_vars

\* C9, amended: a window-close event that the event loop of TopicEntry,
\* QuizPlay or Result takes from its polled list leads directly to Exit, and
\* on Result so does a key press or click.  Generating takes no event from
\* the queue, so a close delivered there waits for the next screen's poll;
\* and when Enter commits the topic, what is left of TopicEntry's polled list
\* is dropped unhandled.
C9_HandledCloseExits ==
    [][/\ (/\ screen \in {"TopicEntry", "QuizPlay", "Result"}
           /\ batch # <<>> /\ batch' # batch
           /\ (Head(batch).type = "QUIT" \/ screen = "Result"))
          => screen' = "Exit"
       /\ (screen = "Generating" /\ screen' # "Exit")
          => (Len(queue') >= Len(queue) /\ SubSeq(queue', 1, Len(queue)) = queue)
       /\ (screen = "TopicEntry" /\ screen' = "Generating")
          => (batch' = <<>> /\ queue' = queue)]_vars

\* C9's case: the program has exited from QuizPlay with questions left, which
\* only a window-close event handled there does.
C9_Witness ==
    /\ screen = "Exit" /\ exit_code = 0
    /\ questions # <<>> /\ current_question < Len(questions)

\* C10: when generation is over, QuizPlay is entered if and only if there is
\* at least one question; with none the program shuts the display down and
\* exits, and QuizPlay and Result are never entered.
C10_QuizOnlyWithQuestions ==
    /\ [](screen \in {"QuizPlay", "Result"} => questions # <<>>)
    /\ [][(screen = "Generating" /\ screen' # "Generating")
            => IF questions # <<>>
               THEN screen' = "QuizPlay"
               ELSE screen' = "Exit" /\ ~display']_vars

\* C10's case: every reply failed, main reported it and the program exited
\* with the display shut down.
C10_Witness ==
    /\ screen = "Exit" /\ ~display
    /\ questions = <<>> /\ log = "Failed to generate quiz questions."

\* C11: the exit status is non-zero when the API key is missing (the program
\* starts on Exit) and when no question could be generated, and 0 when the
\* program exits after the quiz or because the user closed the window.
C11_ExitCodes ==
    /\ (screen = "Exit" => exit_code # 0)
    /\ [][(screen # "Exit" /\ screen' = "Exit")
            => IF screen = "Generating"
               THEN exit_code' > 0
               ELSE exit_code' = 0]_vars

\* The click position lies inside one of the four option rectangles.
InOption(pos) == \E idx \in 0..3 : CollidePoint(OptionRect(idx), pos)

\* run_quiz's for loop handles the event at the head of the polled list.
QuizHandles(type) ==
    /\ screen = "QuizPlay" /\ pc = "events"
    /\ batch # <<>> /\ Head(batch).type = type /\ batch' = Tail(batch)

\* C12: every click inside an option rectangle answers the question at the
\* cursor: there is such a question, the score goes up by one exactly when the
\* clicked option's text is that question's answer, and the cursor goes up by
\* one, however many clicks one polled list holds.
C12_ClickAnswersCursorQuestion ==
    [][(QuizHandles("MOUSEBUTTONDOWN") /\ InOption(Head(batch).pos))
         => /\ current_question < Len(questions)
            /\ LET q       == questions[current_question + 1]
                   clicked == CHOOSE idx \in 0..3 :
                                  CollidePoint(OptionRect(idx), Head(batch).pos)
               IN  /\ current_question' = current_question + 1
                   /\ score' = IF q.options[clicked + 1] = q.answer
                               THEN score + 1 ELSE score]_vars

\* The Questions generate_quiz appends for the replies of UiReplies it accepts.
SessionQuestions ==
    { NewQuestion(ParseGeneratedText(Strip(reply.text)).result) :
        reply \in { r \in UiReplies :
                      ParsesOk(r) /\ AcceptsParsed(ParseGeneratedText(Strip(r.text)).result) } }

\* run_quiz alone, called by main with a list of 1 to NumQuestions Questions.
InitQuiz ==
    /\ screen = "QuizPlay" /\ pc = "poll" /\ display = TRUE /\ exit_code = -1
    /\ queue = <<>> /\ batch = <<>> /\ active = FALSE /\ text = <<>>
    /\ questions \in UNION { [1..n -> SessionQuestions] : n \in 1..NumQuestions }
    /\ GenIdle
    /\ current_question = 0 /\ score = 0 /\ question_data = questions[1]

\* The click positions inside the option rectangle that shows q's answer.
CorrectPositions(q) ==
    { pos \in ClickPositions :
        \E idx \in OptionsHit(q.options, pos) : q.options[idx + 1] = q.answer }

\* A user who answers every question correctly: the k-th click of the session
\* is on the correct option of the k-th question.  Each option click handled
\* moves the cursor by one, so the clicks so far are the cursor plus the
\* clicks still waiting.
CorrectClick ==
    /\ screen = "QuizPlay"
    /\ LET k == current_question + Len(queue) + Len(batch) IN
       /\ k < Len(questions)
       /\ \E pos \in CorrectPositions(questions[k + 1]) : UserEvent(MouseDown(pos))

NextQuiz ==
    \/ CorrectClick
    \/ QuizPoll
    \/ QuizEvent
    \/ QuizRender
    \/ ResultPoll
    \/ ResultRender

SpecQuiz == InitQuiz /\ [][NextQuiz]_vars

\* C13: in a session of n Questions where the user's click for each question
\* is that question's correct option, the Result screen reports n / n, however
\* the clicks fall into the polled event lists.
C13_AllCorrectScoresFull ==
    screen = "Result" => (score = Len(questions) /\ current_question = Len(questions))

\* main_menu's for loop handles the event at the head of the polled list.
MenuHandles(type) ==
    /\ screen = "TopicEntry" /\ pc = "events"
    /\ batch # <<>> /\ Head(batch).type = type /\ batch' # batch

\* s is not empty and neither starts nor ends with white space.
TrimmedNonEmpty(s) ==
    s # <<>> /\ s[1] \notin Whitespace /\ Last(s) \notin Whitespace

\* C14: TopicEntry is left for Generating only by an Enter key press handled
\* while the input is active and the buffer, trimmed, is not empty, and the
\* topic handed to generate_quiz is that trimmed buffer.  Enter with an empty
\* or blank buffer, and any key press while inactive, keep TopicEntry and the
\* buffer as they are.
C14_EnterCommitsTrimmedTopic ==
    [][/\ (screen = "TopicEntry" /\ screen' = "Generating")
          => /\ MenuHandles("KEYDOWN") /\ Head(batch).key = "K_RETURN"
             /\ active /\ Strip(text) # <<>>
             /\ topic' = Strip(text) /\ TrimmedNonEmpty(topic')
       /\ (/\ MenuHandles("KEYDOWN")
           /\ \/ ~active
              \/ Head(batch).key = "K_RETURN" /\ \A k \in 1..Len(text) : text[k] \in Whitespace)
          => (screen' = "TopicEntry" /\ text' = text)]_vars

\* C14's case: Enter has committed a topic and generate_quiz is about to
\* issue its first request for it.
C14_Witness ==
    /\ screen = "Generating" /\ pc = "request" /\ i = 0
    /\ TrimmedNonEmpty(topic)

\* C15: after a mouse click inside the input region active is true, after a
\* click outside it active is false, whatever active was before the click.
C15_ClickSetsActive ==
    [][MenuHandles("MOUSEBUTTONDOWN")
         => active' = CollidePoint(InputBox, Head(batch).pos)]_vars

\* C16: the parsed question body is what follows the leading Question: prefix
\* of line 0, trimmed: a later occurrence of Question: in the line is kept.
C16_OnlyLeadingPrefixRemoved ==
    (pc = "returned" /\ ~parsed.none)
        => parsed.question = Strip(Drop(Lines(generated_text)[1], Len(QuestionPrefix)))

\* run_quiz draws the frame: the polled list is done and the loop goes on.
QuizDraws ==
    screen = "QuizPlay" /\ pc = "events" /\ batch = <<>> /\ pc' = "poll"

\* C17: every frame drawn in QuizPlay shows the number, the text and the
\* options of the question at the cursor, the frame drawn after a click of
\* the same pass of the loop included.  The frame is drawn from the cursor
\* (the number) and from question_data, the question loaded at the top of the
\* pass (the text and the options).
C17_FrameShowsCursorQuestion ==
    [][QuizDraws
         => /\ current_question < Len(questions)
            /\ question_data.question = questions[current_question + 1].question
            /\ question_data.options = questions[current_question + 1].options]_vars

\* The user clicks inside an option rectangle while the quiz is shown.
OptionClick ==
    /\ screen = "QuizPlay"
    /\ \E pos \in { p \in ClickPositions : InOption(p) } : UserEvent(MouseDown(pos))

\* One event of each kind run_quiz and end_quiz tell apart: the window's
\* close, the clicks, and a key press.
QuizEvents ==
    { QuitEvent } \cup { MouseDown(pos) : pos \in ClickPositions }
    \cup { KeyDown("K_RETURN", "\r") }

\* run_quiz and end_quiz with any user: as SpecQuiz starts, with those events.
NextQuizLive ==
    \/ \E e \in QuizEvents : UserEvent(e)
    \/ QuizPoll
    \/ QuizEvent
    \/ QuizRender
    \/ ResultPoll
    \/ ResultEvent
    \/ ResultRender

\* run_quiz's while loop never blocks: pygame.event.get() returns at once, so
\* each step of the loop is taken once it is due.  The user keeps clicking
\* inside option rectangles for as long as the quiz is shown.
SpecQuizLive ==
    /\ InitQuiz /\ [][NextQuizLive]_vars
    /\ WF_vars(QuizPoll) /\ WF_vars(QuizEvent) /\ WF_vars(QuizRender)
    /\ SF_vars(OptionClick)

\* C18: every option click handled moves the cursor up, nothing in QuizPlay
\* moves it down, and the loop condition tested after each polled list sends
\* the program to Result exactly when the cursor is at or past the end, so
\* QuizPlay never polls with the cursor there; hence with a user who keeps
\* clicking options and never closes the window, QuizPlay leads to Result.
C18_ClicksReachResult ==
    /\ [][(QuizHandles("MOUSEBUTTONDOWN") /\ InOption(Head(batch).pos))
            => current_question' > current_question]_vars
    /\ [][screen = "QuizPlay" => current_question' >= current_question]_vars
    /\ [][QuizDraws
            => (screen' = "Result") = (current_question >= Len(questions))]_vars
    /\ []((screen = "QuizPlay" /\ pc = "poll") => current_question < Len(questions))
    /\ ([]~HasQuit(queue \o batch)) => ((screen = "QuizPlay") ~> (screen = "Result"))

\* C18's case: the window was never closed and the clicks took the cursor of
\* a full-length quiz to the end, where Result took over.
C18_Witness ==
    /\ screen = "Result" /\ exit_code = -1
    /\ Len(questions) = NumQuestions /\ current_question >= Len(questions)

\* C19: in QuizPlay and on Result, 0 <= score <= cursor <= total, total being
\* the number of questions: the reported score never exceeds the reported
\* total, however many option clicks one polled list holds.
C19_ScoreCursorTotalOrdered ==
    screen \in {"QuizPlay", "Result"}
        => /\ 0 <= score
           /\ score <= current_question
           /\ current_question <= Len(questions)

\* C20: generate_quiz appends a Question only for a reply whose parsed
\* question body is not empty; a reply that passes every rule of the parser
\* with an empty body is reported as a failure and leaves the list as it was;
\* so no Question of the list has an empty question text.
C20_EmptyBodyIsFailedSlot ==
    /\ [](\A k \in 1..Len(questions) : questions[k].question # <<>>)
    /\ [][(screen = "Generating" /\ i' = i + 1)
            => /\ questions' # questions
                  => (ParsesOk(response') /\ parsed'.question # <<>>)
               /\ (ParsesOk(response') /\ parsed'.question = <<>>)
                  => /\ questions' = questions
                     /\ log' = "Failed to parse generated question"]_vars

\* C20's case: the last reply passed every rule of the parser, its body is
\* empty, and the list still holds only the Question appended before it.
C20_Witness ==
    /\ screen = "Generating" /\ i = 2
    /\ ParsesOk(response) /\ ~parsed.none /\ parsed.question = <<>>
    /\ Len(questions) = 1
    /\ log = "Failed to parse generated question"

====
